---------------------------- MODULE Spec2Model ----------------------------
(***************************************************************************)
(* Model of src/main.py: an octree of 3-D points (OctreeNode), the binary  *)
(* hash tree helpers (MerkleNode, build_merkle_tree, combine_merkle_nodes) *)
(* and the module-level script that inserts a list of points and then      *)
(* attaches a (merkle_root, storage_identifier) tuple to each point's leaf.*)
(*                                                                         *)
(* Coordinates and sizes are Python floats in the source.  The model keeps *)
(* them as integers in units of 1/Scale and rounds every sum the way a     *)
(* binary float does (to nearest, ties to even), with a significand of     *)
(* MantissaBits bits in place of the 53 of a Python float.  Halving a size *)
(* is exact in both.                                                       *)
(***************************************************************************)
EXTENDS Integers, Sequences, FiniteSets, TLC

VARIABLES root, points, pc, attach_i, failed, lazy_created, pre_insert,
          depths, mnodes

vars == <<root, points, pc, attach_i, failed, lazy_created, pre_insert,
          depths, mnodes>>

octvars == <<root, points, pc, attach_i, failed, lazy_created, pre_insert,
             depths>>

-----------------------------------------------------------------------------
(* Bounds *)

\* Interpreter recursion limit (sys.getrecursionlimit(), 1000 by default),
\* counted in frames above the caller of root.insert.
RecursionLimit == 19

\* Significand width of a float (53 in Python).
MantissaBits == 8

\* Longest list of points the script inserts.
MaxPoints == 3

\* Most MerkleNode objects built in the hash-tree specification.
MaxMerkle == 3

RECURSIVE Pow2(_)
Pow2(n) == IF n = 0 THEN 1 ELSE 2 * Pow2(n - 1)

\* Fixed-point unit: insert descends one level every two frames, and the
\* deepest node it can create still has an integer half size.
Scale == Pow2(RecursionLimit \div 2 + 2)

Abs(v) == IF v < 0 THEN 0 - v ELSE v

\* The power of two q such that Abs(v) \div q has exactly MantissaBits bits
\* (1 when v already fits).
RECURSIVE Quantum(_, _)
Quantum(a, q) ==
    IF a \div q < Pow2(MantissaBits) THEN q ELSE Quantum(a, 2 * q)

\* Float rounding of an exact sum: round to nearest, ties to even.
Fl(v) ==
    LET a == Abs(v)
        q == Quantum(a, 1)
        k == a \div q
        r == a % q
        up == 2 * r > q \/ (2 * r = q /\ k % 2 = 1)
        m == (IF up THEN k + 1 ELSE k) * q
    IN  IF v < 0 THEN 0 - m ELSE m

-----------------------------------------------------------------------------
(* Values *)

None == [kind |-> "None"]

\* A Python str is a sequence of tokens; a literal token stands for a piece
\* of text, a sha token for the 64-digit hexdigest of the text it carries.
Str(toks) == [kind |-> "str", s |-> toks]

Lit(s) == Str(<<[lit |-> s]>>)

Empty == Str(<<>>)

\* left_hash + right_hash
Concat(a, b) == Str(a.s \o b.s)

\* hashlib.sha256(v.encode()).hexdigest(): deterministic and treated as
\* injective, so the digest is the token that names its preimage.
sha256(v) == Str(<<[sha |-> v.s]>>)

\* Python truth value of a str or None.
Truthy(v) == v.kind = "str" /\ v.s # <<>>

Point3D(x, y, z, data) ==
    [kind |-> "Point3D", x |-> x, y |-> y, z |-> z, data |-> data]

\* The root volume of the script.
RootSize == 300

\* The points the script may draw: two of the cluster centres, a second
\* payload at the first centre, the centre of the root volume, a point the
\* normal offsets can produce outside the root volume, and two points whose
\* x are neighbouring floats.
PointSet ==
    { Point3D(25 * Scale, 25 * Scale, 25 * Scale, Lit("A")),
      Point3D(75 * Scale, 75 * Scale, 75 * Scale, Lit("B")),
      Point3D(25 * Scale, 25 * Scale, 25 * Scale, Lit("C")),
      Point3D(150 * Scale, 150 * Scale, 150 * Scale, Lit("M")),
      Point3D((0 - 5) * Scale, 25 * Scale, 25 * Scale, Lit("O")),
      Point3D(268 * Scale, 25 * Scale, 25 * Scale, Lit("P")),
      Point3D(270 * Scale, 25 * Scale, 25 * Scale, Lit("N")) }

-----------------------------------------------------------------------------
(* OctreeNode *)

\* The tree is a function from paths (sequences of child slots, <<>> = the
\* root object) to node records; children[i] of the node at path is None
\* exactly when Append(path, i) is not in the domain.
Slots == 0 .. 7

OctreeNode(x, y, z, size) ==
    [x |-> x, y |-> y, z |-> z, size |-> size, data |-> None]

HasChild(t, path, i) == Append(path, i) \in DOMAIN t

is_leaf(t, path) == \A i \in Slots : ~HasChild(t, path, i)

\* index |= 1 / 2 / 4
get_child_index(n, point) ==
    LET mid_x == Fl(n.x + n.size \div 2)
        mid_y == Fl(n.y + n.size \div 2)
        mid_z == Fl(n.z + n.size \div 2)
    IN  (IF point.x >= mid_x THEN 1 ELSE 0)
      + (IF point.y >= mid_y THEN 2 ELSE 0)
      + (IF point.z >= mid_z THEN 4 ELSE 0)

\* Bits of a slot number, as the rows of the two offset tables list them.
BitX(i) == i % 2
BitY(i) == (i \div 2) % 2
BitZ(i) == (i \div 4) % 2

\* The class attribute: rows of 0 / 0.5, not scaled by the node size.
OFFSETS(i) ==
    [ox |-> BitX(i) * (Scale \div 2),
     oy |-> BitY(i) * (Scale \div 2),
     oz |-> BitZ(i) * (Scale \div 2)]

\* A slip that builds only the first seven rows of the table.
subdivide_seven(t, path) ==
    LET n == t[path]
        half == n.size \div 2
        made == { Append(path, i) : i \in 0 .. 6 }
    IN  [q \in DOMAIN t \cup made |->
           IF q \in made
           THEN LET i == q[Len(q)]
                IN  OctreeNode(Fl(n.x + BitX(i) * half),
                               Fl(n.y + BitY(i) * half),
                               Fl(n.z + BitZ(i) * half), half)
           ELSE t[q]]

\* The local table of subdivide: rows of 0 / half, one child per row.
subdivide(t, path) ==
    LET n == t[path]
        half == n.size \div 2
        made == { Append(path, i) : i \in Slots }
    IN  [q \in DOMAIN t \cup made |->
           IF q \in made
           THEN LET i == q[Len(q)]
                IN  OctreeNode(Fl(n.x + BitX(i) * half),
                               Fl(n.y + BitY(i) * half),
                               Fl(n.z + BitZ(i) * half), half)
           ELSE t[q]]

\* The child the lazy branch of insert creates.
LazyChild(n, idx) ==
    LET half == n.size \div 2
        o == OFFSETS(idx)
    IN  OctreeNode(Fl(n.x + o.ox), Fl(n.y + o.oy), Fl(n.z + o.oz), half)

\* A slip that leaves the old point in the node being subdivided.
ClearDataKept(t, path) == t

\* self.data = None
ClearData(t, path) == [t EXCEPT ![path].data = None]

Raise(t, lz) == [tree |-> t, ok |-> FALSE, lazy |-> lz]

\* insert(self, point) running in frame number d.  is_leaf needs two more
\* frames (the method and its generator expression), subdivide needs two (the
\* method and OctreeNode.__init__); a call past RecursionLimit raises
\* RecursionError, which nothing catches, so the tree keeps every assignment
\* made so far.
RECURSIVE insert(_, _, _, _, _)

\* The statement after a call that returned r: skipped when the call raised.
ThenInsert(r, path, point, d) ==
    IF r.ok THEN insert(r.tree, path, point, d, r.lazy) ELSE r

insert(t, path, point, d, lz) ==
    IF d + 2 > RecursionLimit
    THEN Raise(t, lz)
    ELSE IF is_leaf(t, path)
    THEN IF t[path].data = None
         THEN [tree |-> [t EXCEPT ![path].data = point], ok |-> TRUE,
               lazy |-> lz]
         ELSE LET current_point == t[path].data
                  t1 == ClearData(t, path)
                  t2 == subdivide(t1, path)
              IN  ThenInsert(insert(t2, path, current_point, d + 1, lz),
                             path, point, d + 1)
    ELSE IF point.kind # "Point3D"
    THEN Raise(t, lz)
    ELSE LET idx == get_child_index(t[path], point)
             c == Append(path, idx)
             made == ~HasChild(t, path, idx)
             t1 == IF made
                   THEN [q \in DOMAIN t \cup {c} |->
                           IF q = c THEN LazyChild(t[path], idx) ELSE t[q]]
                   ELSE t
         IN  insert(t1, c, point, d + 1, lz \/ made)

\* depth_of_point: the loop also runs on a leaf whose data is None or a
\* Point3D, and stops only on a node that is None or holds other data.
RECURSIVE depth_walk(_, _, _, _)
depth_walk(t, path, point, depth) ==
    IF path \in DOMAIN t /\ (t[path].data = None \/ t[path].data.kind = "Point3D")
    THEN depth_walk(t, Append(path, get_child_index(t[path], point)), point,
                    depth + 1)
    ELSE depth

depth_of_point(t, point) == depth_walk(t, <<>>, point, 0)

-----------------------------------------------------------------------------
(* MerkleNode *)

compute_hash(left, right, data) ==
    IF Truthy(data)
    THEN sha256(data)
    ELSE LET left_hash == IF left # None THEN left.hash ELSE Empty
             right_hash == IF right # None THEN right.hash ELSE Empty
         IN  sha256(Concat(left_hash, right_hash))

\* MerkleNode(data): left and right are None when the hash is computed.
MerkleNode(data) ==
    [kind |-> "MerkleNode", left |-> None, right |-> None, data |-> data,
     hash |-> compute_hash(None, None, data)]

combine_merkle_nodes(left, right) ==
    LET parent == MerkleNode(None)
    IN  [parent EXCEPT !.left = left, !.right = right,
                       !.hash = compute_hash(left, right, parent.data)]

\* One pass of the while loop: pad an odd list with None, combine pairs.
CombinePairs(nodes) ==
    LET padded == IF Len(nodes) % 2 = 1 THEN Append(nodes, None) ELSE nodes
    IN  [k \in 1 .. (Len(padded) \div 2) |->
           combine_merkle_nodes(padded[2 * k - 1], padded[2 * k])]

RECURSIVE ReduceNodes(_)
ReduceNodes(nodes) ==
    IF Len(nodes) > 1 THEN ReduceNodes(CombinePairs(nodes)) ELSE nodes[1]

\* data_list is not empty (nodes[0] of an empty list raises IndexError).
build_merkle_tree(data_list) ==
    ReduceNodes([k \in 1 .. Len(data_list) |-> MerkleNode(data_list[k])])

store_to_distributed_system(data_chunk) == sha256(data_chunk)

-----------------------------------------------------------------------------
(* The script *)

\* The walk of the attachment loop: the path of the leaf it stops at, or
\* NoNode when node becomes None.
NoNode == <<8>>

RECURSIVE locate(_, _, _)
locate(t, path, point) ==
    IF path \notin DOMAIN t
    THEN NoNode
    ELSE IF is_leaf(t, path)
    THEN path
    ELSE locate(t, Append(path, get_child_index(t[path], point)), point)

Init ==
    /\ root = [q \in {<<>>} |-> OctreeNode(0, 0, 0, RootSize * Scale)]
    /\ points = <<>>
    /\ pc = "insert"
    /\ attach_i = 1
    /\ failed = <<>>
    /\ lazy_created = FALSE
    /\ pre_insert = root
    /\ depths = <<>>
    /\ mnodes = {}

\* for point in points: root.insert(point).  An insert that raises ends the
\* script.
Insert(point) ==
    /\ pc = "insert"
    /\ Len(points) < MaxPoints
    /\ \E r \in {insert(root, <<>>, point, 1, lazy_created)} :
           /\ root' = r.tree
           /\ lazy_created' = r.lazy
           /\ pc' = IF r.ok THEN "insert" ELSE "raised"
    /\ points' = Append(points, point)
    /\ pre_insert' = root
    /\ UNCHANGED <<attach_i, failed, depths, mnodes>>

\* The insert loop has consumed the list.
EndInserts ==
    /\ pc = "insert"
    /\ pc' = "attach"
    /\ UNCHANGED <<root, points, attach_i, failed, lazy_created, pre_insert,
                   depths, mnodes>>

\* One iteration of the second loop over points.
Attach ==
    /\ pc = "attach"
    /\ attach_i <= Len(points)
    /\ LET point == points[attach_i]
           merkle_root == build_merkle_tree(<<point.data>>)
           storage_identifier == store_to_distributed_system(point.data)
           node == locate(root, <<>>, point)
       IN  IF node # NoNode /\ root[node].data.kind = "Point3D"
           THEN /\ root' = [root EXCEPT ![node].data =
                              [kind |-> "tuple", merkle_root |-> merkle_root,
                               storage_identifier |-> storage_identifier]]
                /\ UNCHANGED failed
           ELSE /\ failed' = Append(failed, point)
                /\ UNCHANGED root
    /\ attach_i' = attach_i + 1
    /\ UNCHANGED <<points, pc, lazy_created, pre_insert, depths, mnodes>>

\* visualize_points: depths = [octree_root.depth_of_point(point) ...]
Visualize ==
    /\ pc = "attach"
    /\ attach_i > Len(points)
    /\ depths' = [k \in 1 .. Len(points) |-> depth_of_point(root, points[k])]
    /\ pc' = "done"
    /\ UNCHANGED <<root, points, attach_i, failed, lazy_created, pre_insert,
                   mnodes>>

Next ==
    \/ \E point \in PointSet : Insert(point)
    \/ EndInserts
    \/ Attach
    \/ Visualize

Spec == Init /\ [][Next]_vars

-----------------------------------------------------------------------------
(* The hash-tree helpers on their own *)

\* Payloads handed to MerkleNode: a text, the empty text, and a text that is
\* itself a hexdigest.
MerkleData == { Lit("A"), Empty, sha256(Lit("A")) }

MakeLeaf(data) ==
    /\ Cardinality(mnodes) < MaxMerkle
    /\ mnodes' = mnodes \cup { MerkleNode(data) }
    /\ UNCHANGED octvars

Combine(left, right) ==
    /\ Cardinality(mnodes) < MaxMerkle
    /\ mnodes' = mnodes \cup { combine_merkle_nodes(left, right) }
    /\ UNCHANGED octvars

BuildTree(data_list) ==
    /\ Cardinality(mnodes) < MaxMerkle
    /\ mnodes' = mnodes \cup { build_merkle_tree(data_list) }
    /\ UNCHANGED octvars

DataLists == { <<a>> : a \in MerkleData }
             \cup { <<a, b>> : a \in MerkleData, b \in MerkleData }
             \cup { <<a, b, c>> : a \in MerkleData, b \in MerkleData,
                                  c \in MerkleData }

NextMerkle ==
    \/ \E data \in MerkleData : MakeLeaf(data)
    \/ \E left \in mnodes \cup {None}, right \in mnodes \cup {None} :
           Combine(left, right)
    \/ \E data_list \in DataLists : BuildTree(data_list)

SpecMerkle == Init /\ [][NextMerkle]_vars

-----------------------------------------------------------------------------
(* Properties *)

\* The half-open containment test on a node's own bounds:
\* n.x <= p.x < n.x + n.size, likewise y and z.
Contains(n, p) ==
    /\ n.x <= p.x /\ p.x < Fl(n.x + n.size)
    /\ n.y <= p.y /\ p.y < Fl(n.y + n.size)
    /\ n.z <= p.z /\ p.z < Fl(n.z + n.size)

Stored(t, p) == \E path \in DOMAIN t : t[path].data = p

\* The number of insert calls that returned normally.
Returned == IF pc = "raised" THEN Len(points) - 1 ELSE Len(points)

InsertPhase == pc \in {"insert", "raised"}

\* C1: after any sequence of inserts, every inserted point that lies inside
\* the root volume is located at a leaf whose data is that point.
CE_C1 ==
    InsertPhase =>
        \A k \in 1 .. Returned :
            Contains(root[<<>>], points[k]) =>
                LET leaf == locate(root, <<>>, points[k])
                IN  leaf # NoNode /\ root[leaf].data = points[k]

\* C2: inserting a point identical to one already stored returns and leaves
\* the tree (nodes, leaf, stored values) as it was before the call.
CE_C2 ==
    (InsertPhase /\ Len(points) >= 1
        /\ Stored(pre_insert, points[Len(points)]))
    => (pc = "insert" /\ root = pre_insert)

\* C3: every insert call returns, also for points that route to the same
\* octant at every level, and the points are then all held in the tree.
CE_C3 ==
    InsertPhase =>
        /\ pc = "insert"
        /\ \A k \in 1 .. Len(points) : Stored(root, points[k])

\* C4: a point outside the root volume is never stored, so every point
\* stored in a node lies inside the root volume and inside that node's bounds.
CE_C4 ==
    \A path \in DOMAIN root :
        root[path].data.kind = "Point3D" =>
            /\ Contains(root[<<>>], root[path].data)
            /\ Contains(root[path], root[path].data)

\* C5: an insert that fails leaves the tree exactly as it was before the call.
CE_C5 == pc = "raised" => root = pre_insert

\* C6: in a tree built by inserts that all returned, for every node n and
\* every point p inside n's bounds, the child in slot get_child_index(p) has
\* bounds that contain p.
CE_C6 ==
    pc = "insert" =>
        \A path \in DOMAIN root : \A p \in PointSet :
            LET idx == get_child_index(root[path], p)
            IN  (Contains(root[path], p) /\ HasChild(root, path, idx))
                    => Contains(root[Append(path, idx)], p)

IsParent(m) == m.data = None

\* C7: a parent with one child on the left and the parent with that child on
\* the right have different digests, and no parent's digest equals the digest
\* of a leaf built from non-empty data.
CE_C7 ==
    /\ \A m1 \in mnodes, m2 \in mnodes :
           (/\ IsParent(m1) /\ IsParent(m2)
            /\ m1.left # None /\ m1.right = None
            /\ m2.left = None /\ m2.right = m1.left)
           => m1.hash # m2.hash
    /\ \A m1 \in mnodes, m2 \in mnodes :
           (IsParent(m1) /\ Truthy(m2.data)) => m1.hash # m2.hash

\* C8: no node is at once internal and holding data: a node whose data is
\* not None has all 8 children None.
THM_C8 ==
    \A path \in DOMAIN root :
        root[path].data # None => is_leaf(root, path)

\* The script has attached a tuple to a leaf of a subdivided tree.
W_C8 ==
    /\ pc = "done"
    /\ ~is_leaf(root, <<>>)
    /\ \E path \in DOMAIN root : root[path].data.kind = "tuple"

\* C9: depth_of_point returns the number of edges on the path from the root
\* to the leaf the point routes to, whatever that leaf holds.
CE_C9 ==
    \A p \in PointSet :
        locate(root, <<>>, p) # NoNode
            => depth_of_point(root, p) = Len(locate(root, <<>>, p))

\* OFFSETS[i] * size for a table entry of 0 or 0.5.
TimesOffset(off, size) == ((2 * off) \div Scale) * (size \div 2)

\* C10: every node has all 8 children or none, child i has half the parent's
\* size and origin parent origin + OFFSETS[i] * parent.size, and the lazy
\* child-creation branch of insert has never run.
THM_C10 ==
    /\ ~lazy_created
    /\ \A path \in DOMAIN root :
           /\ is_leaf(root, path) \/ \A i \in Slots : HasChild(root, path, i)
           /\ \A i \in Slots :
                  HasChild(root, path, i) =>
                      LET n == root[path]
                          c == root[Append(path, i)]
                      IN  /\ c.size = n.size \div 2
                          /\ c.x = Fl(n.x + TimesOffset(OFFSETS(i).ox, n.size))
                          /\ c.y = Fl(n.y + TimesOffset(OFFSETS(i).oy, n.size))
                          /\ c.z = Fl(n.z + TimesOffset(OFFSETS(i).oz, n.size))

\* An insert has gone through the non-leaf branch of a subdivided root and
\* returned.
W_C10 ==
    /\ pc = "insert"
    /\ Len(points) >= 3
    /\ ~is_leaf(root, <<>>)
    /\ \E i \in Slots : ~is_leaf(root, <<i>>)

=============================================================================
